---- MODULE Spec2Model ----
(***************************************************************************)
(* Model of the Meater cloud client (src/meater/MeaterApi.py): the token   *)
(* held by MeaterApi, the authenticate / get_devices / get_device          *)
(* coroutines with their suspension points, the HTTP status mapping, the   *)
(* JSON envelope parsing and the MeaterProbe / MeaterCook constructors.    *)
(*                                                                         *)
(* Python values are tagged records, so that None, strings, numbers,       *)
(* lists and dicts stay distinguishable and every operation on them can    *)
(* fail the way the interpreter fails (AttributeError, TypeError,          *)
(* ValueError).  Floats are kept in tenths of a degree.                    *)
(***************************************************************************)
EXTENDS Integers, Sequences, FiniteSets, TLC

VARIABLES
    jwt,        \* MeaterApi._jwt
    pc,         \* per caller: "idle", "request" (awaiting the response), "body" (awaiting json())
    op,         \* per caller: the coroutine in flight and its device_id argument
    bearer,     \* per caller: the Authorization header of the request in flight
    lapped,     \* per caller: the token of a login that completed while this call was in flight
    last,       \* the call that completed last: what it received and how it ended
    okTokens    \* the tokens of the logins that have completed successfully

vars == <<jwt, pc, op, bearer, lapped, last, okTokens>>

\* ------------------------------------------------------------------ bounds
NumCallers == 2
MaxDevices == 2

Callers == 1..NumCallers

\* ------------------------------------------------------------ Python values
None == [t |-> "null"]
Str(s) == [t |-> "str", s |-> s]
Num(n) == [t |-> "num", n |-> n]
List(items) == [t |-> "list", items |-> items]
Dict(pairs) == [t |-> "dict", pairs |-> pairs]
PyTrue == [t |-> "bool", b |-> TRUE]
Unread == [t |-> "unread"]

IsDict(v) == v.t = "dict"

\* bool(v), as used by `if not x`
Truthy(v) ==
    CASE v.t = "null" -> FALSE
      [] v.t = "str" -> v.s # ""
      [] v.t = "num" -> v.n # 0
      [] v.t = "list" -> Len(v.items) > 0
      [] v.t = "dict" -> Len(v.pairs) > 0
      [] OTHER -> TRUE

\* len(v) is defined for str, list and dict only
HasLen(v) == v.t \in {"str", "list", "dict"}

PyLen(v) ==
    CASE v.t = "str" -> Len(v.s)
      [] v.t = "list" -> Len(v.items)
      [] v.t = "dict" -> Len(v.pairs)

HasKey(d, k) == \E i \in 1..Len(d.pairs) : d.pairs[i][1] = k

\* dict.get(k): the value of the first pair with key k, None when absent
Get(d, k) ==
    IF HasKey(d, k)
    THEN d.pairs[CHOOSE i \in 1..Len(d.pairs) : d.pairs[i][1] = k][2]
    ELSE None

\* iteration: a list yields its items, a dict yields its keys
Iterable(v) == v.t \in {"list", "dict"}

Iter(v) ==
    IF v.t = "list" THEN v.items
    ELSE [i \in 1..Len(v.pairs) |-> Str(v.pairs[i][1])]

\* ----------------------------------------------------------------- outcomes
Raise(e) == [ok |-> FALSE, err |-> e, v |-> None]
Return(v) == [ok |-> TRUE, err |-> "", v |-> v]

\* float(x): tenths of a unit; the decimal strings the model's payloads use
FloatTable == [s \in {"54.5", "22.1"} |-> IF s = "54.5" THEN 545 ELSE 221]

PyFloat(x) ==
    CASE x.t = "num" -> Return([t |-> "float", tenths |-> x.n * 10])
      [] x.t = "str" ->
            IF x.s \in DOMAIN FloatTable
            THEN Return([t |-> "float", tenths |-> FloatTable[x.s]])
            ELSE Raise("ValueError")
      [] OTHER -> Raise("TypeError")

\* int(x): the digit strings the model's payloads use
IntTable == [s \in {"120"} |-> 120]

PyInt(x) ==
    CASE x.t = "num" -> Return(Num(x.n))
      [] x.t = "str" ->
            IF x.s \in DOMAIN IntTable
            THEN Return(Num(IntTable[x.s]))
            ELSE Raise("ValueError")
      [] OTHER -> Raise("TypeError")

\* datetime.fromtimestamp(x)
FromTimestamp(x) ==
    IF x.t = "num" THEN Return([t |-> "datetime", epoch |-> x.n])
    ELSE Raise("TypeError")

\* x.get(k) on an arbitrary value: only a dict has .get
GetOf(x, k) == IF IsDict(x) THEN Return(Get(x, k)) ELSE Raise("AttributeError")

\* o.get(k), float(o), int(o) on the value of an evaluation, unless it raised
ThenGet(o, k) == IF o.ok THEN GetOf(o.v, k) ELSE o
ThenFloat(o) == IF o.ok THEN PyFloat(o.v) ELSE o
ThenInt(o) == IF o.ok THEN PyInt(o.v) ELSE o

\* the first exception raised by a sequence of evaluations, in order
Failed(steps) == \E i \in 1..Len(steps) : ~steps[i].ok

FirstFailure(steps) ==
    steps[CHOOSE i \in 1..Len(steps) :
            /\ ~steps[i].ok
            /\ \A j \in 1..(i - 1) : steps[j].ok]

\* ------------------------------------------------------------ domain model
MeaterCook(cookdata) ==
    LET id == GetOf(cookdata, "id")
        name == GetOf(cookdata, "name")
        state == GetOf(cookdata, "state")
        target == ThenFloat(ThenGet(GetOf(cookdata, "temperature"), "target"))
        peak == ThenFloat(ThenGet(GetOf(cookdata, "temperature"), "peak"))
        remaining == ThenInt(ThenGet(GetOf(cookdata, "time"), "remaining"))
        elapsed == ThenInt(ThenGet(GetOf(cookdata, "time"), "elapsed"))
        steps == <<id, name, state, target, peak, remaining, elapsed>>
    IN  IF Failed(steps) THEN FirstFailure(steps)
        ELSE Return([t |-> "MeaterCook",
                     id |-> id.v,
                     name |-> name.v,
                     state |-> state.v,
                     target_temperature |-> target.v,
                     peak_temperature |-> peak.v,
                     time_remaining |-> remaining.v,
                     time_elapsed |-> elapsed.v])

MeaterProbe(id, internal_temp, ambient_temp, cookdata, time_updated, index) ==
    LET internal == PyFloat(internal_temp)
        ambient == PyFloat(ambient_temp)
        cook == IF cookdata = None THEN Return(None) ELSE MeaterCook(cookdata)
        updated == FromTimestamp(time_updated)
        steps == <<internal, ambient, cook, updated>>
    IN  IF Failed(steps) THEN FirstFailure(steps)
        ELSE Return([t |-> "MeaterProbe",
                     id |-> id,
                     index |-> index,
                     internal_temperature |-> internal.v,
                     ambient_temperature |-> ambient.v,
                     cook |-> cook.v,
                     time_updated |-> updated.v])

\* --------------------------------------------------------------- the client
\* the token check left out
NotAuthenticatedNever(j) == FALSE

\* `if not self._jwt` of __get_raw_state
NotAuthenticated(j) == ~Truthy(j)

\* "Bearer " + self._jwt: str + non-str is a TypeError
BearerHeader(j) ==
    IF j.t = "str" THEN Return(Str("Bearer " \o j.s)) ELSE Raise("TypeError")

\* the 429 check left out of the device status checks
DeviceStatusErrorNo429(status) ==
    IF status = 404 THEN "UnknownDeviceError"
    ELSE IF status = 401 THEN "AuthenticationError"
    ELSE IF status = 500 THEN "ServiceUnavailableError"
    ELSE IF status # 200 THEN "Exception"
    ELSE ""

\* the status checks of __get_raw_state, in order; "" when the status passes
DeviceStatusError(status) ==
    IF status = 404 THEN "UnknownDeviceError"
    ELSE IF status = 401 THEN "AuthenticationError"
    ELSE IF status = 500 THEN "ServiceUnavailableError"
    ELSE IF status = 429 THEN "TooManyRequestsError"
    ELSE IF status # 200 THEN "Exception"
    ELSE ""

\* the 404 check of the device endpoint copied into authenticate
AuthStatusErrorWith404(status) ==
    IF status = 404 THEN "UnknownDeviceError"
    ELSE IF status = 401 THEN "AuthenticationError"
    ELSE IF status = 500 THEN "ServiceUnavailableError"
    ELSE IF status = 429 THEN "TooManyRequestsError"
    ELSE IF status # 200 THEN "Exception"
    ELSE ""

\* the status checks of authenticate, in order; "" when the status passes
AuthStatusError(status) ==
    IF status = 401 THEN "AuthenticationError"
    ELSE IF status = 500 THEN "ServiceUnavailableError"
    ELSE IF status = 429 THEN "TooManyRequestsError"
    ELSE IF status # 200 THEN "Exception"
    ELSE ""

\* __get_raw_state after json(): the device states, or the exception raised
RawState(device_id, device_state_body) ==
    IF ~HasLen(device_state_body) THEN Raise("TypeError")
    ELSE IF PyLen(device_state_body) = 0 THEN Raise("Exception")
    ELSE IF device_id # None THEN GetOf(device_state_body, "data")
    ELSE ThenGet(GetOf(device_state_body, "data"), "devices")

\* the probe gets enumerate()'s 0-based index
DisplayIndexZeroBased(index) == index

\* enumerate() counts from 0; the probe gets index + 1
DisplayIndex(index) == index + 1

\* one pass of the loop of get_devices: the probe built from `device`
ProbeOf(device, index) ==
    LET id == GetOf(device, "id")
        internal == ThenGet(GetOf(device, "temperature"), "internal")
        ambient == ThenGet(GetOf(device, "temperature"), "ambient")
        cook == GetOf(device, "cook")
        updated == GetOf(device, "updated_at")
        args == <<id, internal, ambient, cook, updated>>
    IN  IF Failed(args) THEN FirstFailure(args)
        ELSE MeaterProbe(id.v, internal.v, ambient.v, cook.v, updated.v,
                         DisplayIndex(index))

RECURSIVE Probes(_, _, _)
Probes(items, k, devices) ==
    IF k > Len(items) THEN Return(List(devices))
    ELSE LET probe == ProbeOf(items[k], k - 1)
         IN  IF probe.ok THEN Probes(items, k + 1, Append(devices, probe.v))
             ELSE probe

\* get_devices after json(): the list of probes, or the exception raised
GetDevicesResult(device_id, device_state_body) ==
    LET device_states == RawState(device_id, device_state_body)
    IN  IF ~device_states.ok THEN device_states
        ELSE IF ~Iterable(device_states.v) THEN Raise("TypeError")
        ELSE Probes(Iter(device_states.v), 1, <<>>)

\* the check inverted: `if jwt`
NoTokenInverted(tok) == Truthy(tok)

\* `if not jwt` of authenticate
NoToken(tok) == ~Truthy(tok)

\* authenticate after json(): the local jwt, or the exception raised
LoginToken(auth_body) ==
    LET tok == ThenGet(GetOf(auth_body, "data"), "token")
    IN  IF ~tok.ok THEN tok
        ELSE IF NoToken(tok.v) THEN Raise("AuthenticationError")
        ELSE tok

\* self._jwt assigned before the check
StoreTokenUnchecked(old, tok) == tok.v

\* self._jwt assigned only while it is still None
StoreTokenOnce(old, tok) == IF tok.ok /\ old = None THEN tok.v ELSE old

\* self._jwt after authenticate read the body: assigned only past the check
StoreToken(old, tok) == IF tok.ok THEN tok.v ELSE old

\* -------------------------------------------------------------- front end
\* probe_info of the command line: one row per probe, or the offline notice
ProbeInfo(devices) ==
    IF PyLen(devices) > 0
    THEN [k \in 1..PyLen(devices) |->
            [index |-> devices.items[k].index,
             internal_temperature |-> devices.items[k].internal_temperature,
             ambient_temperature |-> devices.items[k].ambient_temperature,
             time_updated |-> devices.items[k].time_updated,
             cook |-> devices.items[k].cook]]
    ELSE <<"All devices are offline.">>

\* ------------------------------------------------------------------ inputs
\* What the cloud may answer.  Payload positions that the code iterates
\* (data, devices) hold None, a list or a dict, never a string.
Envelope(data) == Dict(<<<<"data", data>>>>)
Temperature(internal, ambient) ==
    Dict(<<<<"internal", internal>>, <<"ambient", ambient>>>>)

CookPayload ==
    Dict(<<<<"id", Str("c1")>>, <<"name", Str("Steak")>>, <<"state", Str("Started")>>,
           <<"temperature", Dict(<<<<"target", Num(56)>>, <<"peak", Str("54.5")>>>>)>>,
           <<"time", Dict(<<<<"remaining", Str("120")>>, <<"elapsed", Num(300)>>>>)>>>>)

\* id "X", temperatures as strings, no cook
DevX ==
    Dict(<<<<"id", Str("X")>>,
           <<"temperature", Temperature(Str("54.5"), Str("22.1"))>>,
           <<"cook", None>>,
           <<"updated_at", Num(1700000000)>>>>)

\* no id, temperatures as numbers, a cook in progress
DevNoId ==
    Dict(<<<<"temperature", Temperature(Num(63), Num(180))>>,
           <<"cook", CookPayload>>,
           <<"updated_at", Num(1700000060)>>>>)

\* no temperature object
DevBad == Dict(<<<<"id", Str("Z")>>, <<"cook", None>>, <<"updated_at", Num(1700000000)>>>>)

DevicePayloads == {DevX, DevNoId, DevBad}

DeviceLists == UNION {[1..n -> DevicePayloads] : n \in 0..MaxDevices}

DevicesBody(items) == Envelope(Dict(<<<<"devices", List(items)>>>>))

DeviceBodies ==
    {None, Dict(<<>>), Envelope(None), Envelope(Dict(<<>>)), Envelope(List(<<DevX>>))}
        \cup {DevicesBody(items) : items \in DeviceLists}
        \cup {Envelope(d) : d \in DevicePayloads}

TokenBody(tok) == Envelope(Dict(<<<<"token", tok>>>>))

LoginBodies ==
    {None, Dict(<<>>), Envelope(None), Envelope(Dict(<<>>))}
        \cup {TokenBody(tok) : tok \in {None, Str(""), Str("abc"), Str("xyz"), Num(123)}}

Statuses == {200, 401, 403, 404, 429, 500, 503}
DeviceIds == {Str("X")}

\* the reduced repertoire of the concurrent specification
ConcStatuses == {200, 401, 429}
ConcLoginBodies == {TokenBody(Str("")), TokenBody(Str("abc")), TokenBody(Str("xyz"))}
ConcDeviceBodies == {Dict(<<>>), DevicesBody(<<DevX>>)}

\* ------------------------------------------------------------------- state
Idle == [name |-> "none", device_id |-> None]

Init ==
    /\ jwt = None
    /\ pc = [c \in Callers |-> "idle"]
    /\ op = [c \in Callers |-> Idle]
    /\ bearer = [c \in Callers |-> None]
    /\ lapped = [c \in Callers |-> None]
    /\ last = [op |-> Idle, requests |-> 0, status |-> 0, body |-> Unread,
               out |-> Return(None), lapped |-> None]
    /\ okTokens = {}

\* caller c's coroutine ends: its frame is dropped and the outcome recorded
Finish(c, requests, status, body, out) ==
    /\ pc' = [pc EXCEPT ![c] = "idle"]
    /\ op' = [op EXCEPT ![c] = Idle]
    /\ bearer' = [bearer EXCEPT ![c] = None]
    /\ last' = [op |-> op[c], requests |-> requests, status |-> status,
                body |-> body, out |-> out, lapped |-> lapped[c]]

\* ----------------------------------------------------------------- actions
\* authenticate up to the suspension in session.post
Authenticate(c) ==
    /\ pc[c] = "idle"
    /\ pc' = [pc EXCEPT ![c] = "request"]
    /\ op' = [op EXCEPT ![c] = [name |-> "authenticate", device_id |-> None]]
    /\ lapped' = [lapped EXCEPT ![c] = None]
    /\ UNCHANGED <<jwt, bearer, last, okTokens>>

\* get_devices -> __get_raw_state up to the suspension in session.get
GetDevices(c, device_id) ==
    /\ pc[c] = "idle"
    /\ LET call == [name |-> "get_devices", device_id |-> device_id]
           headers == BearerHeader(jwt)
           failure == IF NotAuthenticated(jwt) THEN Raise("AuthenticationError")
                      ELSE headers
       IN  IF NotAuthenticated(jwt) \/ ~headers.ok
           THEN /\ last' = [op |-> call, requests |-> 0, status |-> 0,
                            body |-> Unread, out |-> failure, lapped |-> None]
                /\ UNCHANGED <<pc, op, bearer, lapped>>
           ELSE /\ pc' = [pc EXCEPT ![c] = "request"]
                /\ op' = [op EXCEPT ![c] = call]
                /\ bearer' = [bearer EXCEPT ![c] = headers.v]
                /\ lapped' = [lapped EXCEPT ![c] = None]
                /\ UNCHANGED last
    /\ UNCHANGED <<jwt, okTokens>>

\* get_device awaits get_devices(device_id)
GetDevice(c, device_id) == GetDevices(c, device_id)

\* the response of session.get arrives: the status checks
DeviceResponse(c, status) ==
    /\ pc[c] = "request"
    /\ op[c].name = "get_devices"
    /\ IF DeviceStatusError(status) # ""
       THEN /\ Finish(c, 1, status, Unread, Raise(DeviceStatusError(status)))
            /\ lapped' = [lapped EXCEPT ![c] = None]
       ELSE /\ pc' = [pc EXCEPT ![c] = "body"]
            /\ UNCHANGED <<op, bearer, lapped, last>>
    /\ UNCHANGED <<jwt, okTokens>>

\* json() of the device response arrives: parsing and probe construction
DeviceBody(c, device_state_body) ==
    /\ pc[c] = "body"
    /\ op[c].name = "get_devices"
    /\ Finish(c, 1, 200, device_state_body,
              GetDevicesResult(op[c].device_id, device_state_body))
    /\ lapped' = [lapped EXCEPT ![c] = None]
    /\ UNCHANGED <<jwt, okTokens>>

\* the response of session.post arrives: the status checks
AuthResponse(c, status) ==
    /\ pc[c] = "request"
    /\ op[c].name = "authenticate"
    /\ IF AuthStatusError(status) # ""
       THEN /\ Finish(c, 1, status, Unread, Raise(AuthStatusError(status)))
            /\ lapped' = [lapped EXCEPT ![c] = None]
       ELSE /\ pc' = [pc EXCEPT ![c] = "body"]
            /\ UNCHANGED <<op, bearer, lapped, last>>
    /\ UNCHANGED <<jwt, okTokens>>

\* json() of the login response arrives: the token is extracted and stored
AuthBody(c, auth_body) ==
    /\ pc[c] = "body"
    /\ op[c].name = "authenticate"
    /\ LET tok == LoginToken(auth_body)
       IN  /\ Finish(c, 1, 200, auth_body, IF tok.ok THEN Return(PyTrue) ELSE tok)
           /\ jwt' = StoreToken(jwt, tok)
           /\ okTokens' = IF tok.ok THEN okTokens \cup {tok.v} ELSE okTokens
           /\ lapped' = [d \in Callers |->
                            IF d = c THEN None
                            ELSE IF tok.ok /\ pc[d] # "idle" THEN tok.v
                            ELSE lapped[d]]

\* the transport call is cancelled or times out: the await raises, nothing
\* catches it, the coroutine ends
TransportFailure(c) ==
    /\ pc[c] \in {"request", "body"}
    /\ Finish(c, 1, 0, Unread, Raise("TransportError"))
    /\ lapped' = [lapped EXCEPT ![c] = None]
    /\ UNCHANGED <<jwt, okTokens>>

\* one logical caller, the full repertoire of answers
Next ==
    \/ Authenticate(1)
    \/ \E device_id \in {None} \cup DeviceIds : GetDevices(1, device_id)
    \/ \E device_id \in DeviceIds : GetDevice(1, device_id)
    \/ \E status \in Statuses : DeviceResponse(1, status)
    \/ \E body \in DeviceBodies : DeviceBody(1, body)
    \/ \E status \in Statuses : AuthResponse(1, status)
    \/ \E body \in LoginBodies : AuthBody(1, body)
    \/ TransportFailure(1)

Spec == Init /\ [][Next]_vars

\* NumCallers callers interleaving at the suspension points
NextConc ==
    \E c \in Callers :
        \/ Authenticate(c)
        \/ \E device_id \in {None} \cup DeviceIds : GetDevices(c, device_id)
        \/ \E device_id \in DeviceIds : GetDevice(c, device_id)
        \/ \E status \in ConcStatuses : DeviceResponse(c, status)
        \/ \E body \in ConcDeviceBodies : DeviceBody(c, body)
        \/ \E status \in ConcStatuses : AuthResponse(c, status)
        \/ \E body \in ConcLoginBodies : AuthBody(c, body)
        \/ TransportFailure(c)

SpecConc == Init /\ [][NextConc]_vars

\* -------------------------------------------------------------- properties
IsAuth(l) == l.op.name = "authenticate"
IsDevices(l) == l.op.name = "get_devices"
IsList(l) == IsDevices(l) /\ l.op.device_id = None
IsSingle(l) == IsDevices(l) /\ l.op.device_id # None

\* the token field of a login body as the wire format names it: data.token,
\* None when the envelope or the field is not there
TokenField(body) ==
    IF IsDict(body) /\ IsDict(Get(body, "data"))
    THEN Get(Get(body, "data"), "token")
    ELSE None

HasStringToken(body) == TokenField(body).t = "str" /\ TokenField(body).s # ""

\* a device-collection body whose devices all carry temperature and updated_at
ValidDevices == {DevX, DevNoId}

IsDeviceCollection(body) ==
    /\ IsDict(body)
    /\ IsDict(Get(body, "data"))
    /\ Get(Get(body, "data"), "devices").t = "list"
    /\ \A i \in 1..Len(Get(Get(body, "data"), "devices").items) :
          Get(Get(body, "data"), "devices").items[i] \in ValidDevices

AuthenticationError == Raise("AuthenticationError")
UnexpectedResponseError == Raise("Exception")

\* C1: while no authenticate has succeeded the client holds no token, no
\* device request is in flight, and a completed get_devices / get_device
\* ended in AuthenticationError having issued zero requests.
C1_NoTokenNoRequest ==
    /\ (okTokens = {}) <=> (jwt = None)
    /\ okTokens = {} =>
          /\ \A c \in Callers : op[c].name # "get_devices" /\ bearer[c] = None
          /\ IsDevices(last) =>
                /\ last.out = AuthenticationError
                /\ last.requests = 0
                /\ last.status = 0
                /\ last.body = Unread

C1_Witness ==
    /\ IsSingle(last)
    /\ okTokens = {}
    /\ last.requests = 0
    /\ last.out = AuthenticationError

\* C2: a login answered 200 with a non-empty token string returns True and
\* stores the token, and a get_devices call made next is not rejected: it
\* builds its header from that token and issues its request.
C2_LoginPermitsDevices ==
    /\ [](IsAuth(last) /\ last.status = 200 /\ HasStringToken(last.body) =>
            /\ last.out = Return(PyTrue)
            /\ jwt = TokenField(last.body))
    /\ [][\A c \in Callers, device_id \in {None} \cup DeviceIds :
            (/\ IsAuth(last) /\ last.status = 200 /\ HasStringToken(last.body)
             /\ GetDevices(c, device_id)) =>
                /\ last' = last
                /\ pc'[c] = "request"
                /\ op'[c].name = "get_devices"
                /\ bearer'[c] = Str("Bearer " \o TokenField(last.body).s)]_vars

C2_Witness ==
    /\ IsAuth(last) /\ last.status = 200 /\ last.body = TokenBody(Str("abc"))
    /\ last.out = Return(PyTrue)
    /\ pc[1] = "request" /\ op[1].name = "get_devices"
    /\ bearer[1] = Str("Bearer abc")

\* C3: a completed call that received 401, 404, 429 or 500 raised exactly
\* the mapped error (404 on the device endpoints only) and never read the body.
C3_StatusMapping ==
    LET Mapped(status) ==
            CASE status = 401 -> "AuthenticationError"
              [] status = 404 -> "UnknownDeviceError"
              [] status = 429 -> "TooManyRequestsError"
              [] status = 500 -> "ServiceUnavailableError"
    IN  /\ IsDevices(last) /\ last.status \in {401, 404, 429, 500} =>
              last.out = Raise(Mapped(last.status)) /\ last.body = Unread
        /\ IsAuth(last) /\ last.status \in {401, 429, 500} =>
              last.out = Raise(Mapped(last.status)) /\ last.body = Unread

C3_Witness ==
    /\ IsList(last)
    /\ last.status = 429
    /\ last.out = Raise("TooManyRequestsError")
    /\ last.body = Unread

\* C4: a completed call that received any other non-200 status raised the
\* generic Exception (the UnexpectedResponseError kind), which is none of the
\* four named kinds; a 404 on the login endpoint is such a status.
C4_OtherStatus ==
    LET named == {"AuthenticationError", "UnknownDeviceError",
                  "ServiceUnavailableError", "TooManyRequestsError"}
        other == IF IsAuth(last) THEN last.status \notin {0, 200, 401, 429, 500}
                 ELSE last.status \notin {0, 200, 401, 404, 429, 500}
    IN  (IsAuth(last) \/ IsDevices(last)) /\ other =>
            /\ last.out = UnexpectedResponseError
            /\ last.out.err \notin named
            /\ last.body = Unread

C4_Witness ==
    /\ IsAuth(last)
    /\ last.status = 404
    /\ last.out = UnexpectedResponseError

\* C5: a login answered 200 whose token field is missing or empty (no data
\* envelope included) ends in AuthenticationError.
C5_MissingTokenIsAuthError ==
    (/\ IsAuth(last) /\ last.status = 200 /\ IsDict(last.body)
     /\ ~Truthy(TokenField(last.body))) =>
        last.out = AuthenticationError

\* C6: get_device answered 200 with the device object as the data envelope
\* returns exactly one probe: that device's id and temperatures, no cook,
\* index 1.
C6_SingleDevice ==
    (IsSingle(last) /\ last.status = 200 /\ last.body = Envelope(DevX)) =>
        /\ last.out.ok
        /\ last.out.v.t = "list"
        /\ Len(last.out.v.items) = 1
        /\ LET probe == last.out.v.items[1]
           IN  /\ probe.id = Str("X")
               /\ probe.internal_temperature.tenths = 545
               /\ probe.ambient_temperature.tenths = 221
               /\ probe.cook = None
               /\ probe.index = 1

\* C7: get_devices answered 200 with N well-formed device objects returns N
\* probes in the order received, the k-th with index k, whatever the ids
\* (duplicate or missing).
C7_IndexByPosition ==
    (IsList(last) /\ last.status = 200 /\ IsDeviceCollection(last.body)) =>
        LET items == Get(Get(last.body, "data"), "devices").items
        IN  /\ last.out.ok
            /\ last.out.v.t = "list"
            /\ Len(last.out.v.items) = Len(items)
            /\ \A k \in 1..Len(items) :
                  /\ last.out.v.items[k].index = k
                  /\ last.out.v.items[k].id = Get(items[k], "id")
                  /\ (last.out.v.items[k].cook = None) <=> (Get(items[k], "cook") = None)
                  /\ last.out.v.items[k].time_updated.epoch = Get(items[k], "updated_at").n

C7_Witness ==
    /\ IsList(last) /\ last.status = 200
    /\ last.body = DevicesBody(<<DevNoId, DevX>>)
    /\ last.out.ok
    /\ Len(last.out.v.items) = 2
    /\ last.out.v.items[1].id = None /\ last.out.v.items[1].index = 1
    /\ last.out.v.items[2].id = Str("X") /\ last.out.v.items[2].index = 2

\* C8: get_devices answered 200 with a present but empty devices list returns
\* an empty sequence (the front end reports all devices offline); answered
\* with an empty body ({} or no body, which json() gives as None) it raises
\* the generic Exception.
C8_EmptyResponses ==
    (IsList(last) /\ last.status = 200) =>
        /\ last.body = DevicesBody(<<>>) =>
              /\ last.out = Return(List(<<>>))
              /\ ProbeInfo(last.out.v) = <<"All devices are offline.">>
        /\ last.body \in {Dict(<<>>), None} => last.out = UnexpectedResponseError

\* C9: the token changes only when an authenticate that received 200 with a
\* non-empty token completes, and then to that token; it never returns to None.
C9_TokenFrame ==
    /\ [][jwt' # jwt =>
            /\ IsAuth(last')
            /\ last'.status = 200
            /\ last'.out = Return(PyTrue)
            /\ Truthy(TokenField(last'.body))
            /\ jwt' = TokenField(last'.body)]_vars
    /\ [][jwt # None => jwt' # None]_vars
    /\ [](IsAuth(last) /\ last.out.ok => jwt = TokenField(last.body))

C9_Witness ==
    /\ IsAuth(last) /\ last.out.ok
    /\ jwt = Str("xyz")
    /\ Str("abc") \in okTokens

\* C10: under interleaving, a device request is built only from the token of
\* a login that had already completed successfully; a device call made before
\* any login completed ends in AuthenticationError without a request, even
\* while a login is in flight; and every login that completes successfully
\* leaves its own token stored, so of two overlapping logins the one that
\* completes last decides.
C10_ConcurrentCalls ==
    /\ [][\A c \in Callers :
            (pc[c] = "idle" /\ pc'[c] = "request" /\ op'[c].name = "get_devices") =>
                \E tok \in okTokens :
                    tok.t = "str" /\ bearer'[c] = Str("Bearer " \o tok.s)]_vars
    /\ [][\A c \in Callers, device_id \in {None} \cup DeviceIds :
            (okTokens = {} /\ GetDevices(c, device_id)) =>
                /\ pc'[c] = "idle"
                /\ last'.out = AuthenticationError
                /\ last'.requests = 0]_vars
    /\ [][\A c \in Callers :
            (/\ pc[c] = "body" /\ op[c].name = "authenticate"
             /\ pc'[c] = "idle" /\ last'.out.ok) =>
                jwt' = TokenField(last'.body)]_vars
    /\ [][jwt' # jwt => IsAuth(last') /\ last'.out.ok]_vars
    /\ [](\A c \in Callers : pc[c] # "idle" /\ op[c].name = "get_devices" =>
            bearer[c] # None)

C10_Witness ==
    /\ IsAuth(last) /\ last.out.ok
    /\ last.lapped # None
    /\ last.lapped # TokenField(last.body)
    /\ jwt = TokenField(last.body)

====
